---- MODULE Spec2Model ----
(***************************************************************************)
(* Model of the order gateway of src/server.js: the clock offset kept by   *)
(* syncServerTime, the ATR and dynamic stop computations, and the          *)
(* /api/order handler with its protective (stop-loss / take-profit) legs.  *)
(* Further specifications cover makeSignedRequest (the signed string and   *)
(* the URL), getSymbolFilters under concurrent callers, and one request    *)
(* through the retrying HTTP client.                                       *)
(*                                                                         *)
(* Numbers.  Prices and candle values are integers (price units).  ATR and *)
(* the derived stop prices are exact rationals [num, den] with den > 0;    *)
(* JavaScript computes them in binary floating point, which the model does *)
(* not reproduce.  Quantities are integers: the request's quantity in      *)
(* units of 0.00001, the rounded quantity and the LOT_SIZE filter in units *)
(* of 0.0001.                                                              *)
(***************************************************************************)
EXTENDS Integers, Sequences, FiniteSets, TLC

VARIABLES
  \* ---- clock (src/server.js 65-90)
  localTime,        \* Date.now()
  serverTimeOffset, \* let serverTimeOffset
  syncPc,           \* position of each running syncServerTime call
  syncBinanceTime,  \* each call's binanceTime once its fetch has settled
  syncFailed,       \* history: whether that call's fetch failed
  everSynced,       \* history: some sync whose fetch succeeded has completed
  lastGoodOffset,   \* history: the offset stored by the latest such sync
  lastSync,         \* history: outcome of the sync that completed last
  \* ---- pure computations (calculateATR, calculateDynamicSLTP)
  calcPc, klines, period, atr, side, entryPrice, sltp,
  \* ---- /api/order handler (src/server.js 392-498) and what it calls
  pc,               \* position of the handler
  body,             \* req.body
  symbolFilters,    \* let symbolFilters (the process-wide cache)
  roundedQuantity,  \* const roundedQuantity, in units of 0.0001
  currentPrice,     \* const currentPrice; 0 while no price was obtained
  orderResponse,    \* const orderResponse
  orders,           \* the orders array of placeStopLossTakeProfitOrders
  sent,             \* history: the signed requests issued for this request
  lookups,          \* history: the records looked up for it, with their symbol
  pending,          \* the types of the protective requests awaited at the moment
  responses,        \* history: the HTTP responses sent for this request
  \* ---- makeSignedRequest (src/server.js 122-165)
  signedCalls,      \* history: the calls made, each with what it signed and sent
  \* ---- concurrent callers of getSymbolFilters (src/server.js 95-107)
  callerPc,         \* position of each caller
  callerResult,     \* what each caller was given, and how
  filtersFetchedAt, \* history: Date.now() when symbolFilters was last stored
  \* ---- one request through axiosInstance with axios-retry (src/server.js 24-42)
  retryPc,          \* position of the request
  retryCount,       \* axios-retry's count of retries made for it
  attempts,         \* history: the failure, or success, of each transmission
  delays,           \* history: the delay before each retransmission, in ms
  executed          \* history: how many of its transmissions the exchange executed

clockVars == <<localTime, serverTimeOffset, syncPc, syncBinanceTime, syncFailed,
               everSynced, lastGoodOffset, lastSync>>
calcVars == <<calcPc, klines, period, atr, side, entryPrice, sltp>>
orderVars == <<pc, body, symbolFilters, roundedQuantity, currentPrice,
               orderResponse, orders, sent, lookups, pending, responses>>
signVars == <<signedCalls>>
cacheVars == <<callerPc, callerResult, filtersFetchedAt>>
retryVars == <<retryPc, retryCount, attempts, delays, executed>>
auxVars == <<signVars, cacheVars, retryVars>>
requestVars == <<pc, body, roundedQuantity, currentPrice, orderResponse, orders,
                 sent, lookups, pending, responses>>
notSignVars == <<clockVars, calcVars, orderVars, cacheVars, retryVars>>
notCacheVars == <<clockVars, calcVars, requestVars, signVars, retryVars>>
notRetryVars == <<clockVars, calcVars, orderVars, signVars, cacheVars>>
vars == <<clockVars, calcVars, orderVars, auxVars>>
notClockVars == <<calcVars, orderVars, auxVars>>
notCalcVars == <<clockVars, orderVars, auxVars>>

-----------------------------------------------------------------------------
\* Bounds of the model.

\* Date.now() runs over 0..MaxTime.
MaxTime == 4
\* The exchange clock is ahead of the local clock by 1..MaxSkew.
MaxSkew == 2
\* Candle highs, lows and closes run over 1..MaxPrice.
MaxPrice == 3
\* Candle histories given to calculateATR with a free period hold 0..MaxKlines rows.
MaxKlines == 4
\* The period given to calculateATR by /api/atr runs over 1..MaxPeriod.
MaxPeriod == 3
\* Entry prices given to calculateDynamicSLTP run over 1..MaxEntryPrice.
MaxEntryPrice == 3

-----------------------------------------------------------------------------
\* Rational arithmetic on [num, den], den > 0.

Rat(n, d) == [num |-> n, den |-> d]
RatInt(n) == Rat(n, 1)
RatAdd(a, b) == Rat(a.num * b.den + b.num * a.den, a.den * b.den)
RatSub(a, b) == Rat(a.num * b.den - b.num * a.den, a.den * b.den)
RatMul(a, b) == Rat(a.num * b.num, a.den * b.den)
RatEq(a, b) == a.num * b.den = b.num * a.den
RatLess(a, b) == a.num * b.den < b.num * a.den
RatIsZero(a) == a.num = 0

Abs(x) == IF x < 0 THEN -x ELSE x
Max2(a, b) == IF a >= b THEN a ELSE b
Max3(a, b, c) == Max2(a, Max2(b, c))

-----------------------------------------------------------------------------
-----------------------------------------------------------------------------
\* Values of the /api/order handler.

\* symbolFilters: null, or the LOT_SIZE and MIN_NOTIONAL values the handler
\* reads (minQty and stepSize in units of 0.0001, minNotional in price units).
FiltersNull == [isNull |-> TRUE, minQty |-> 0, stepSize |-> 1, minNotional |-> 0]
Filters(q, s, n) == [isNull |-> FALSE, minQty |-> q, stepSize |-> s, minNotional |-> n]

\* orderResponse: the exchange's order record, to which the handler adds
\* stopLossPrice and takeProfitPrice (hasStops) after the protective legs.
OrderResponseNull ==
  [isNull |-> TRUE, status |-> "", avgPrice |-> 0, hasStops |-> FALSE,
   stopLossPrice |-> Rat(0, 1), takeProfitPrice |-> Rat(0, 1)]
OrderResponse(st, avg) ==
  [isNull |-> FALSE, status |-> st, avgPrice |-> avg, hasStops |-> FALSE,
   stopLossPrice |-> Rat(0, 1), takeProfitPrice |-> Rat(0, 1)]

\* req.body.  side "", symbol "" and quantity 0, price 0, stopLossPrice 0 and
\* takeProfitPrice 0 stand for an absent field; placeSLTP is "absent", "true"
\* or "false".  quantity is in units of 0.00001.
Body(sd, q, sym, ty, pr, pl, sl, tp) ==
  [side |-> sd, quantity |-> q, symbol |-> sym, type |-> ty, price |-> pr,
   placeSLTP |-> pl, stopLossPrice |-> sl, takeProfitPrice |-> tp]
BodyNone == Body("", 0, "", "MARKET", 0, "absent", 0, 0)

\* The handler at rest, before any request.
InitOrderIdle ==
  /\ pc = "idle"
  /\ body = BodyNone
  /\ symbolFilters = FiltersNull
  /\ roundedQuantity = 0
  /\ currentPrice = 0
  /\ orderResponse = OrderResponseNull
  /\ orders = <<>>
  /\ sent = <<>>
  /\ lookups = <<>>
  /\ pending = {}
  /\ responses = <<>>

\* No signed request made yet.
InitSignIdle == signedCalls = <<>>

\* Callers of getSymbolFilters.
MaxCallers == 2
Callers == 1..MaxCallers

\* What a caller of getSymbolFilters is given: the filters or null, whether
\* they came from the cache (line 96), and how long ago they had been stored.
CallerResult(f, cached, age) == [filters |-> f, fromCache |-> cached, age |-> age]
CallerResultNone == CallerResult(FiltersNull, FALSE, 0)

\* No caller of getSymbolFilters.
InitCacheIdle ==
  /\ callerPc = [c \in Callers |-> "idle"]
  /\ callerResult = [c \in Callers |-> CallerResultNone]
  /\ filtersFetchedAt = 0

\* No request in the retrying client.
InitRetryIdle ==
  /\ retryPc = "idle"
  /\ retryCount = 0
  /\ attempts = <<>>
  /\ delays = <<>>
  /\ executed = 0

\* What the specification at hand leaves alone, at rest.
InitAuxIdle == InitSignIdle /\ InitCacheIdle /\ InitRetryIdle

\* The computations at rest (they take no part in this specification).
InitCalcIdle ==
  /\ calcPc = "off"
  /\ klines = [kind |-> "error", rows |-> <<>>]
  /\ period = 14
  /\ atr = [isNull |-> TRUE, value |-> Rat(0, 1)]
  /\ side = "BUY"
  /\ entryPrice = 0
  /\ sltp = [isNull |-> TRUE, stopLossPrice |-> Rat(0, 1),
            takeProfitPrice |-> Rat(0, 1)]

-----------------------------------------------------------------------------
\* Clock: getBinanceServerTime, syncServerTime, getAdjustedTimestamp.
\* The startup call and the timer calls are 300000 ms apart, so one call of
\* syncServerTime is in flight at a time.

Skews == 1..MaxSkew

InitClock ==
  /\ localTime = 0
  /\ serverTimeOffset = 0
  /\ syncPc = "idle"
  /\ syncBinanceTime = 0
  /\ syncFailed = FALSE
  /\ everSynced = FALSE
  /\ lastGoodOffset = 0
  /\ lastSync = "none"

\* Date.now() advances.
Tick ==
  /\ localTime < MaxTime
  /\ localTime' = localTime + 1
  /\ UNCHANGED <<serverTimeOffset, syncPc, syncBinanceTime, syncFailed,
                 everSynced, lastGoodOffset, lastSync>>
  /\ UNCHANGED notClockVars

\* The startup call or a timer tick starts syncServerTime; it suspends at the
\* await of getBinanceServerTime, whose axios.get is in flight.
SyncStart ==
  /\ syncPc = "idle"
  /\ syncPc' = "fetching"
  /\ UNCHANGED <<localTime, serverTimeOffset, syncBinanceTime, syncFailed,
                 everSynced, lastGoodOffset, lastSync>>
  /\ UNCHANGED notClockVars

\* getBinanceServerTime: the fetch succeeded, return response.data.serverTime.
FetchServerTimeOk ==
  /\ syncPc = "fetching"
  /\ \E skew \in Skews : syncBinanceTime' = localTime + skew
  /\ syncFailed' = FALSE
  /\ syncPc' = "resume"
  /\ UNCHANGED <<localTime, serverTimeOffset, everSynced, lastGoodOffset, lastSync>>
  /\ UNCHANGED notClockVars

\* getBinanceServerTime: the fetch threw, the catch returns Date.now().
FetchServerTimeFail ==
  /\ syncPc = "fetching"
  /\ syncBinanceTime' = localTime
  /\ syncFailed' = TRUE
  /\ syncPc' = "resume"
  /\ UNCHANGED <<localTime, serverTimeOffset, everSynced, lastGoodOffset, lastSync>>
  /\ UNCHANGED notClockVars

\* syncServerTime resumes after the await:
\* serverTimeOffset = binanceTime - Date.now().
SyncStore ==
  /\ syncPc = "resume"
  /\ serverTimeOffset' = syncBinanceTime - localTime
  /\ syncPc' = "idle"
  /\ lastSync' = IF syncFailed THEN "failed" ELSE "ok"
  /\ everSynced' = (everSynced \/ ~syncFailed)
  /\ lastGoodOffset' = IF syncFailed THEN lastGoodOffset
                       ELSE syncBinanceTime - localTime
  /\ UNCHANGED <<localTime, syncBinanceTime, syncFailed>>
  /\ UNCHANGED notClockVars

getAdjustedTimestamp == localTime + serverTimeOffset

NextClock ==
  \/ Tick
  \/ SyncStart
  \/ FetchServerTimeOk
  \/ FetchServerTimeFail
  \/ SyncStore

InitClockSpec == InitClock /\ InitCalcIdle /\ InitOrderIdle /\ InitAuxIdle

SpecClock == InitClockSpec /\ [][NextClock]_vars

-----------------------------------------------------------------------------
\* calculateATR (src/server.js 195-236).

\* A kline row, of which the code reads [2] high, [3] low and [4] close.
Candles == {[high |-> h, low |-> l, close |-> c] :
              h \in 1..MaxPrice, l \in 1..MaxPrice, c \in 1..MaxPrice}
RealCandles == {k \in Candles : k.low <= k.close /\ k.close <= k.high}

\* What makeUnsignedRequest('/fapi/v1/klines') gives: it throws ("error"),
\* returns a body that is no array ("notArray"), or returns the rows, oldest first.
KlinesError == [kind |-> "error", rows |-> <<>>]
KlinesNotArray == [kind |-> "notArray", rows |-> <<>>]
KlinesArray(rows) == [kind |-> "array", rows |-> rows]

RECURSIVE SumSeq(_)
SumSeq(s) == IF s = <<>> THEN 0 ELSE Head(s) + SumSeq(Tail(s))

\* The loop body of lines 212-224 for index i (1-based here, i >= 2).
TrueRange(rows, i) ==
  LET high == rows[i].high
      low == rows[i].low
      prevClose == rows[i - 1].close
  IN Max3(high - low, Abs(high - prevClose), Abs(low - prevClose))

\* The trueRanges array after the loop.
trueRanges(rows) ==
  IF Len(rows) <= 1 THEN <<>>
  ELSE [j \in 1..(Len(rows) - 1) |-> TrueRange(rows, j + 1)]

\* Array.prototype.slice(-n), n > 0.
SliceLast(s, n) == IF Len(s) <= n THEN s ELSE SubSeq(s, Len(s) - n + 1, Len(s))

AtrNull == [isNull |-> TRUE, value |-> Rat(0, 1)]
AtrNumber(v) == [isNull |-> FALSE, value |-> v]

\* The length test of line 204.
InsufficientKlines(k, p) == k.kind /= "array" \/ Len(k.rows) < p

calculateATR(k, p) ==
  IF k.kind = "error" THEN AtrNull
  ELSE IF InsufficientKlines(k, p) THEN AtrNull
  ELSE AtrNumber(Rat(SumSeq(SliceLast(trueRanges(k.rows), p)), p))

\* Sequences over S of length 0..n.
SeqsUpTo(S, n) == UNION {[1..m -> S] : m \in 0..n}

InitATR ==
  /\ InitClock
  /\ InitOrderIdle
  /\ InitAuxIdle
  /\ calcPc = "atr"
  /\ klines \in {KlinesError, KlinesNotArray}
                  \cup {KlinesArray(r) : r \in SeqsUpTo(RealCandles, MaxKlines)}
  /\ period \in 1..MaxPeriod
  /\ atr = AtrNull
  /\ side = "BUY"
  /\ entryPrice = 0
  /\ sltp = [isNull |-> TRUE, stopLossPrice |-> Rat(0, 1),
            takeProfitPrice |-> Rat(0, 1)]

\* One call calculateATR(symbol, interval, period), as made by /api/atr.
CalcATR ==
  /\ calcPc = "atr"
  /\ atr' = calculateATR(klines, period)
  /\ calcPc' = "atrDone"
  /\ UNCHANGED <<klines, period, side, entryPrice, sltp>>
  /\ UNCHANGED notCalcVars

NextATR == CalcATR

SpecATR == InitATR /\ [][NextATR]_vars

-----------------------------------------------------------------------------
\* calculateDynamicSLTP (src/server.js 239-283).

\* period = 14, the default calculateDynamicSLTP's call leaves in place.
DefaultPeriod == 14

\* Defaults of the parameters atrMultiplier (1.5) and riskRewardRatio (2), and
\* the fallback's riskPercentage (0.02).
atrMultiplier == Rat(3, 2)
riskRewardRatio == Rat(2, 1)
riskPercentage == Rat(2, 100)

\* String.prototype.toUpperCase on the spellings of side the model submits.
toUpperCase(s) ==
  CASE s = "buy" -> "BUY"
    [] s = "sell" -> "SELL"
    [] OTHER -> s

Sides == {"BUY", "SELL", "buy", "sell"}

SltpNull == [isNull |-> TRUE, stopLossPrice |-> Rat(0, 1), takeProfitPrice |-> Rat(0, 1)]
SltpPair(sl, tp) == [isNull |-> FALSE, stopLossPrice |-> sl, takeProfitPrice |-> tp]

\* Mutant of FallbackSLTP: the ATR failure is passed on as null.
FallbackSLTP_SurfacesFailure(s, entry) == SltpNull

\* Lines 244-258: the percentage rule used when !atr.
FallbackSLTP(s, entry) ==
  IF toUpperCase(s) = "BUY"
  THEN SltpPair(RatMul(RatInt(entry), RatSub(RatInt(1), riskPercentage)),
                RatMul(RatInt(entry),
                       RatAdd(RatInt(1), RatMul(riskPercentage, riskRewardRatio))))
  ELSE SltpPair(RatMul(RatInt(entry), RatAdd(RatInt(1), riskPercentage)),
                RatMul(RatInt(entry),
                       RatSub(RatInt(1), RatMul(riskPercentage, riskRewardRatio))))

\* Mutant of AtrSLTP: the SELL branch computes the BUY prices.
AtrSLTP_SellAsBuy(s, entry, a) ==
  SltpPair(RatSub(RatInt(entry), RatMul(a, atrMultiplier)),
           RatAdd(RatInt(entry), RatMul(RatMul(a, atrMultiplier), riskRewardRatio)))

\* Lines 261-278: the ATR rule.
AtrSLTP(s, entry, a) ==
  IF toUpperCase(s) = "BUY"
  THEN SltpPair(RatSub(RatInt(entry), RatMul(a, atrMultiplier)),
                RatAdd(RatInt(entry), RatMul(RatMul(a, atrMultiplier), riskRewardRatio)))
  ELSE SltpPair(RatAdd(RatInt(entry), RatMul(a, atrMultiplier)),
                RatSub(RatInt(entry), RatMul(RatMul(a, atrMultiplier), riskRewardRatio)))

\* !atr: null, 0 (and NaN, which integer candles never give).
AtrFalsy(a) == a.isNull \/ RatIsZero(a.value)

\* k is what the klines request inside calculateATR gives.  side is a string
\* (the handler has already called side.toUpperCase()), so the catch of lines
\* 279-282 is not taken.
calculateDynamicSLTP(s, entry, k) ==
  LET a == calculateATR(k, DefaultPeriod)
  IN IF AtrFalsy(a) THEN FallbackSLTP(s, entry) ELSE AtrSLTP(s, entry, a.value)

\* Histories for period 14: n rows alternating between two candles.
Alternating(n, c1, c2) == [i \in 1..n |-> IF i % 2 = 1 THEN c1 ELSE c2]
KlineLengths == {0, DefaultPeriod - 1, DefaultPeriod, DefaultPeriod + 1, DefaultPeriod + 10}
KlinesFor14 ==
  {KlinesError, KlinesNotArray}
    \cup {KlinesArray(Alternating(n, c1, c2)) :
            n \in KlineLengths, c1 \in RealCandles, c2 \in RealCandles}

InitSLTP ==
  /\ InitClock
  /\ InitOrderIdle
  /\ InitAuxIdle
  /\ calcPc = "sltp"
  /\ klines \in KlinesFor14
  /\ period = DefaultPeriod
  /\ atr = AtrNull
  /\ side \in Sides
  /\ entryPrice \in 1..MaxEntryPrice
  /\ sltp = SltpNull

\* One call calculateDynamicSLTP(side, entryPrice).
CalcSLTP ==
  /\ calcPc = "sltp"
  /\ atr' = calculateATR(klines, period)
  /\ sltp' = calculateDynamicSLTP(side, entryPrice, klines)
  /\ calcPc' = "sltpDone"
  /\ UNCHANGED <<klines, period, side, entryPrice>>
  /\ UNCHANGED notCalcVars

NextSLTP == CalcSLTP

SpecSLTP == InitSLTP /\ [][NextSLTP]_vars

-----------------------------------------------------------------------------
\* The /api/order handler (src/server.js 392-498), getSymbolFilters (95-107),
\* makeSignedRequest (122-165) and placeStopLossTakeProfitOrders (286-346).

\* Units of roundedQuantity per 1 of quantity: toFixed(4).
QtyScale == 10000

\* Number(quantity).toFixed(4): from units of 0.00001 to the nearest 0.0001.
toFixed4(q) == (q + 5) \div 10

\* Math.round(x / y) for x >= 0, y > 0.
MathRoundDiv(x, y) == (2 * x + y) \div (2 * y)

\* Number.prototype.toFixed(2) of a rational, in hundredths.
toFixed2(r) ==
  LET n == r.num * 100
  IN IF n >= 0 THEN (2 * n + r.den) \div (2 * r.den)
     ELSE -((2 * (-n) + r.den) \div (2 * r.den))

\* What the exchange publishes for BTCUSDT: minQty 0.001, stepSize 0.001,
\* minNotional 5.
ExchangeFilters == Filters(10, 10, 5)

\* Last prices the ticker may report, and prices at which an entry may fill.
TickerPrices == {1000, 20000}
FillPrices == {20000}

\* Request bodies.
Quantities == {0, 40, 60, 100, 104, 150}
BodySides == {"", "BUY", "SELL", "buy"}
TypeAndPrice == {<<"MARKET", 0>>, <<"LIMIT", 0>>, <<"LIMIT", 19000>>}
ExplicitStops == {<<0, 0>>, <<19000, 22000>>, <<22000, 19000>>}
BodySymbols == {"", "ETHUSDT"}
Bodies ==
  {Body(sd, q, sym, tp[1], tp[2], pl, ex[1], ex[2]) :
     sd \in BodySides, q \in Quantities, sym \in BodySymbols, tp \in TypeAndPrice,
     pl \in {"absent", "true", "false"}, ex \in ExplicitStops}

\* const { ..., symbol = 'BTCUSDT', ... } = req.body.
symbol(b) == IF b.symbol = "" THEN "BTCUSDT" ELSE b.symbol

\* An unsigned lookup made while a request is handled: the exchangeInfo record
\* searched for (line 100), the ticker price (418), the klines (241, 198-202).
Lookup(what, sym) == [what |-> what, symbol |-> sym]

\* const { ..., placeSLTP = true } = req.body, read as a condition.
placeSLTP(b) == b.placeSLTP /= "false"

\* Candle histories the klines request may return while an order is handled.
HandlerKlines ==
  {KlinesError,
   KlinesArray(Alternating(DefaultPeriod - 1, [high |-> 2, low |-> 1, close |-> 1],
                           [high |-> 3, low |-> 1, close |-> 2])),
   KlinesArray(Alternating(DefaultPeriod + 10, [high |-> 2, low |-> 1, close |-> 1],
                           [high |-> 3, low |-> 1, close |-> 2]))}

\* An HTTP response: res.status(st).json({error}) or res.json(orderResponse).
ErrorResponse(st, msg) == [status |-> st, error |-> msg, order |-> OrderResponseNull]
OrderJson(o) == [status |-> 200, error |-> "", order |-> o]

\* A signed request as makeSignedRequest issues it, with the exchange's answer
\* ("ok" or "error", on which makeSignedRequest throws).  stopPrice is in
\* hundredths; price 0 and stopPrice 0 stand for an absent parameter.
SignedRequest(sym, ty, sd, q, pr, sp, outcome) ==
  [method |-> "POST", endpoint |-> "/fapi/v1/order", symbol |-> sym, type |-> ty,
   side |-> sd,
   quantity |-> q, price |-> pr, stopPrice |-> sp,
   timestamp |-> getAdjustedTimestamp, outcome |-> outcome]

\* orderParams of lines 445-456.
EntryRequest(b, rq, outcome) ==
  SignedRequest(toUpperCase(symbol(b)), b.type, toUpperCase(b.side), rq,
                IF b.price /= 0 /\ b.type = "LIMIT" THEN b.price ELSE 0, 0, outcome)

\* closeSide of line 478.
closeSide(sd) == IF sd = "BUY" THEN "SELL" ELSE "BUY"

\* slParams (305-314) and tpParams (326-335).
StopLossRequest(b, rq, p, outcome) ==
  SignedRequest(toUpperCase(symbol(b)), "STOP_MARKET", closeSide(b.side), rq, 0,
                toFixed2(p.stopLossPrice), outcome)
TakeProfitRequest(b, rq, p, outcome) ==
  SignedRequest(toUpperCase(symbol(b)), "TAKE_PROFIT_MARKET", closeSide(b.side), rq, 0,
                toFixed2(p.takeProfitPrice), outcome)

\* Lines 392-402: a request arrives; side and quantity are required.
Receive ==
  /\ pc = "idle"
  /\ UNCHANGED pending
  /\ lookups' = <<>>
  /\ \E b \in Bodies :
       /\ body' = b
       /\ IF b.side = "" \/ b.quantity = 0
          THEN /\ responses' = <<ErrorResponse(400, "Side and quantity are required")>>
               /\ roundedQuantity' = 0
               /\ pc' = "done"
          ELSE /\ responses' = <<>>
               /\ roundedQuantity' = toFixed4(b.quantity)
               /\ pc' = "filters"
  /\ UNCHANGED <<symbolFilters, currentPrice, orderResponse, orders, sent>>
  /\ UNCHANGED <<clockVars, calcVars, auxVars>>

\* The handler has returned: its locals are gone, the cache stays, and the
\* next request may arrive.
Return ==
  /\ pc = "done"
  /\ UNCHANGED pending
  /\ lookups' = <<>>
  /\ pc' = "idle"
  /\ body' = BodyNone
  /\ roundedQuantity' = 0
  /\ currentPrice' = 0
  /\ orderResponse' = OrderResponseNull
  /\ orders' = <<>>
  /\ sent' = <<>>
  /\ responses' = <<>>
  /\ klines' = KlinesError /\ atr' = AtrNull /\ sltp' = SltpNull
  /\ side' = "BUY" /\ entryPrice' = 0
  /\ UNCHANGED <<symbolFilters, calcPc, period>>
  /\ UNCHANGED <<clockVars, auxVars>>

\* getSymbolFilters with the cache filled (line 96).
FiltersCached ==
  /\ pc = "filters"
  /\ UNCHANGED pending
  /\ lookups' = Append(lookups, Lookup("filters", "BTCUSDT"))
  /\ ~symbolFilters.isNull
  /\ pc' = "price"
  /\ UNCHANGED <<body, symbolFilters, roundedQuantity, currentPrice,
                 orderResponse, orders, sent, responses>>
  /\ UNCHANGED <<clockVars, calcVars, auxVars>>

\* getSymbolFilters with the cache empty and the exchangeInfo fetch answered
\* (lines 98-102).
FiltersFetched ==
  /\ pc = "filters"
  /\ UNCHANGED pending
  /\ lookups' = Append(lookups, Lookup("filters", "BTCUSDT"))
  /\ symbolFilters.isNull
  /\ symbolFilters' = ExchangeFilters
  /\ pc' = "price"
  /\ UNCHANGED <<body, roundedQuantity, currentPrice, orderResponse,
                 orders, sent, responses>>
  /\ UNCHANGED <<clockVars, calcVars, auxVars>>

\* Mutant of FiltersFailed: the failed fetch leaves an empty record in the cache.
FiltersFailed_CachesFailure ==
  /\ pc = "filters"
  /\ UNCHANGED pending
  /\ lookups' = Append(lookups, Lookup("filters", "BTCUSDT"))
  /\ symbolFilters.isNull
  /\ symbolFilters' = Filters(0, 1, 0)
  /\ responses' = Append(responses, ErrorResponse(500, "Failed to fetch symbol filters"))
  /\ pc' = "done"
  /\ UNCHANGED <<body, roundedQuantity, currentPrice, orderResponse, orders, sent>>
  /\ UNCHANGED <<clockVars, calcVars, auxVars>>

\* getSymbolFilters with the cache empty and the fetch failing, or BTCUSDT
\* missing from the list: the catch returns null (103-106) and the handler
\* answers 500 (406-408).
FiltersFailed ==
  /\ pc = "filters"
  /\ UNCHANGED pending
  /\ lookups' = Append(lookups, Lookup("filters", "BTCUSDT"))
  /\ symbolFilters.isNull
  /\ responses' = Append(responses, ErrorResponse(500, "Failed to fetch symbol filters"))
  /\ pc' = "done"
  /\ UNCHANGED <<body, symbolFilters, roundedQuantity, currentPrice,
                 orderResponse, orders, sent>>
  /\ UNCHANGED <<clockVars, calcVars, auxVars>>

\* Mutant of PriceChecked: the 400 answers are sent without `return`.
PriceChecked_NoReturn ==
  /\ pc = "price"
  /\ UNCHANGED pending
  /\ lookups' = Append(lookups, Lookup("price", "BTCUSDT"))
  /\ \E p \in TickerPrices :
       LET notionalValue == p * roundedQuantity
           adjustedQuantity ==
             MathRoundDiv(roundedQuantity, symbolFilters.stepSize) * symbolFilters.stepSize
       IN /\ currentPrice' = p
          /\ IF notionalValue < symbolFilters.minNotional * QtyScale
             THEN responses' = Append(responses, ErrorResponse(400, "Notional value"))
             ELSE IF adjustedQuantity < symbolFilters.minQty
             THEN responses' = Append(responses, ErrorResponse(400, "Quantity"))
             ELSE responses' = responses
  /\ pc' = "rateLimits"
  /\ UNCHANGED <<body, symbolFilters, roundedQuantity, orderResponse,
                 orders, sent>>
  /\ UNCHANGED <<clockVars, calcVars, auxVars>>

\* Lines 416-436 with the ticker request answered: the notional check, then
\* the minimum-quantity check on the quantity rounded to the step.
PriceChecked ==
  /\ pc = "price"
  /\ UNCHANGED pending
  /\ lookups' = Append(lookups, Lookup("price", "BTCUSDT"))
  /\ \E p \in TickerPrices :
       LET notionalValue == p * roundedQuantity
           adjustedQuantity ==
             MathRoundDiv(roundedQuantity, symbolFilters.stepSize) * symbolFilters.stepSize
       IN /\ currentPrice' = p
          /\ IF notionalValue < symbolFilters.minNotional * QtyScale
             THEN /\ responses' = Append(responses, ErrorResponse(400, "Notional value"))
                  /\ pc' = "done"
             ELSE IF adjustedQuantity < symbolFilters.minQty
             THEN /\ responses' = Append(responses, ErrorResponse(400, "Quantity"))
                  /\ pc' = "done"
             ELSE /\ responses' = responses
                  /\ pc' = "rateLimits"
  /\ UNCHANGED <<body, symbolFilters, roundedQuantity, orderResponse,
                 orders, sent>>
  /\ UNCHANGED <<clockVars, calcVars, auxVars>>

\* Lines 437-439: the ticker request threw; the catch logs and the handler goes on.
PriceFailed ==
  /\ pc = "price"
  /\ UNCHANGED pending
  /\ lookups' = Append(lookups, Lookup("price", "BTCUSDT"))
  /\ pc' = "rateLimits"
  /\ UNCHANGED <<body, symbolFilters, roundedQuantity, currentPrice,
                 orderResponse, orders, sent, responses>>
  /\ UNCHANGED <<clockVars, calcVars, auxVars>>

\* Mutant of CheckRateLimits: without its try/catch a failed exchangeInfo
\* request throws out of the handler, which has no try around line 442: the
\* request is left without an answer.
CheckRateLimits_Throws ==
  /\ pc = "rateLimits"
  /\ UNCHANGED pending
  /\ UNCHANGED lookups
  /\ pc' \in {"entry", "hung"}
  /\ UNCHANGED <<body, symbolFilters, roundedQuantity, currentPrice,
                 orderResponse, orders, sent, responses>>
  /\ UNCHANGED <<clockVars, calcVars, auxVars>>

\* checkRateLimits (110-119, 442): its result, null on failure, is not used.
CheckRateLimits ==
  /\ pc = "rateLimits"
  /\ UNCHANGED pending
  /\ UNCHANGED lookups
  /\ pc' = "entry"
  /\ UNCHANGED <<body, symbolFilters, roundedQuantity, currentPrice,
                 orderResponse, orders, sent, responses>>
  /\ UNCHANGED <<clockVars, calcVars, auxVars>>

\* Mutant of EntryRejected: the error is logged and the handler goes on to the
\* protective orders.
EntryRejected_GoesOn ==
  /\ pc = "entry"
  /\ UNCHANGED pending
  /\ UNCHANGED lookups
  /\ sent' = Append(sent, EntryRequest(body, roundedQuantity, "error"))
  /\ pc' = "sltp"
  /\ UNCHANGED <<body, symbolFilters, roundedQuantity, currentPrice,
                 orderResponse, orders, responses>>
  /\ UNCHANGED <<clockVars, calcVars, auxVars>>

\* Lines 444-460 and 494-497: the entry request threw.
EntryRejected ==
  /\ pc = "entry"
  /\ UNCHANGED pending
  /\ UNCHANGED lookups
  /\ sent' = Append(sent, EntryRequest(body, roundedQuantity, "error"))
  /\ responses' = Append(responses, ErrorResponse(500, "Failed to place order"))
  /\ pc' = "done"
  /\ UNCHANGED <<body, symbolFilters, roundedQuantity, currentPrice,
                 orderResponse, orders>>
  /\ UNCHANGED <<clockVars, calcVars, auxVars>>

\* Mutant of ProtectionWanted: the fill status is not looked at.
ProtectionWanted_AnyStatus(b, o) == placeSLTP(b) /\ ~o.isNull

\* The condition of line 463.
ProtectionWanted(b, o) == placeSLTP(b) /\ ~o.isNull /\ o.status = "FILLED"

\* Lines 444-463 and 493: the entry request was answered with an order record.
EntryAccepted ==
  /\ pc = "entry"
  /\ UNCHANGED pending
  /\ UNCHANGED lookups
  /\ \E o \in {OrderResponse("NEW", 0), OrderResponse("PARTIALLY_FILLED", 0)}
                \cup {OrderResponse("FILLED", f) : f \in FillPrices} :
       /\ orderResponse' = o
       /\ sent' = Append(sent, EntryRequest(body, roundedQuantity, "ok"))
       /\ IF ProtectionWanted(body, o)
          THEN /\ pc' = "sltp"
               /\ responses' = responses
          ELSE /\ pc' = "done"
               /\ responses' = Append(responses, OrderJson(o))
  /\ UNCHANGED <<body, symbolFilters, roundedQuantity, currentPrice, orders>>
  /\ UNCHANGED <<clockVars, calcVars, auxVars>>

\* Lines 466-471 and 294-301: calculateDynamicSLTP(side, avgPrice) returns and
\* placeStopLossTakeProfitOrders starts with an empty orders array.
DynamicStopsComputed ==
  /\ pc = "sltp"
  /\ UNCHANGED pending
  /\ lookups' = Append(lookups, Lookup("klines", "BTCUSDT"))
  /\ \E k \in HandlerKlines :
       /\ klines' = k
       /\ atr' = calculateATR(k, DefaultPeriod)
       /\ sltp' = calculateDynamicSLTP(body.side, orderResponse.avgPrice, k)
  /\ side' = body.side
  /\ entryPrice' = orderResponse.avgPrice
  /\ orders' = <<>>
  /\ pc' = "stopLoss"
  /\ UNCHANGED <<calcPc, period>>
  /\ UNCHANGED <<body, symbolFilters, roundedQuantity, currentPrice,
                 orderResponse, sent, responses>>
  /\ UNCHANGED <<clockVars, auxVars>>

\* Mutant of StopLossRequested: the two legs are started together
\* (Promise.all), not one after the other.
StopLossRequested_BothAtOnce ==
  /\ pc = "stopLoss"
  /\ pending' = {"STOP_MARKET", "TAKE_PROFIT_MARKET"}
  /\ pc' = "stopLossWait"
  /\ UNCHANGED <<body, symbolFilters, roundedQuantity, currentPrice,
                 orderResponse, orders, sent, lookups, responses>>
  /\ UNCHANGED <<clockVars, calcVars, auxVars>>

\* Lines 303-316: slParams is built and makeSignedRequest is called; the
\* function suspends at its await.
StopLossRequested ==
  /\ pc = "stopLoss"
  /\ pending' = {"STOP_MARKET"}
  /\ pc' = "stopLossWait"
  /\ UNCHANGED <<body, symbolFilters, roundedQuantity, currentPrice,
                 orderResponse, orders, sent, lookups, responses>>
  /\ UNCHANGED <<clockVars, calcVars, auxVars>>

\* Lines 324-337: tpParams is built and makeSignedRequest is called; the
\* function suspends at its await.
TakeProfitRequested ==
  /\ pc = "takeProfit"
  /\ pending' = {"TAKE_PROFIT_MARKET"}
  /\ pc' = "takeProfitWait"
  /\ UNCHANGED <<body, symbolFilters, roundedQuantity, currentPrice,
                 orderResponse, orders, sent, lookups, responses>>
  /\ UNCHANGED <<clockVars, calcVars, auxVars>>

\* Mutant of PlaceStopLoss: one try block around both legs, so a failed
\* stop-loss ends the placement.
PlaceStopLoss_FailureEndsPlacement ==
  /\ pc = "stopLossWait"
  /\ pending' = {}
  /\ UNCHANGED lookups
  /\ \E outcome \in {"ok", "error"} :
       /\ sent' = Append(sent, StopLossRequest(body, roundedQuantity, sltp, outcome))
       /\ orders' = Append(orders, [type |-> "stopLoss", placed |-> outcome = "ok"])
       /\ IF outcome = "ok"
          THEN pc' = "takeProfit" /\ responses' = responses
          ELSE pc' = "done" /\ responses' = Append(responses, OrderJson(orderResponse))
  /\ UNCHANGED <<body, symbolFilters, roundedQuantity, currentPrice, orderResponse>>
  /\ UNCHANGED <<clockVars, calcVars, auxVars>>

\* Lines 316-322: the stop-loss request settles, placed or failed.
PlaceStopLoss ==
  /\ pc = "stopLossWait"
  /\ pending' = {}
  /\ UNCHANGED lookups
  /\ \E outcome \in {"ok", "error"} :
       /\ sent' = Append(sent, StopLossRequest(body, roundedQuantity, sltp, outcome))
       /\ orders' = Append(orders, [type |-> "stopLoss", placed |-> outcome = "ok"])
  /\ pc' = "takeProfit"
  /\ UNCHANGED <<body, symbolFilters, roundedQuantity, currentPrice,
                 orderResponse, responses>>
  /\ UNCHANGED <<clockVars, calcVars, auxVars>>

\* Mutant of PlaceTakeProfit: the leg has no try/catch of its own, so its
\* failure is thrown to the handler, whose catch of 487-490 answers 500 and,
\* having no return, falls through to the res.json of line 493.
PlaceTakeProfit_ThrowsToHandler ==
  /\ pc = "takeProfitWait"
  /\ pending' = {}
  /\ UNCHANGED lookups
  /\ \E outcome \in {"ok", "error"} :
       /\ sent' = Append(sent, TakeProfitRequest(body, roundedQuantity, sltp, outcome))
       /\ IF outcome = "ok"
          THEN /\ orders' = Append(orders, [type |-> "takeProfit", placed |-> TRUE])
               /\ orderResponse' = [orderResponse EXCEPT
                                      !.hasStops = TRUE,
                                      !.stopLossPrice = sltp.stopLossPrice,
                                      !.takeProfitPrice = sltp.takeProfitPrice]
               /\ responses' = Append(responses, OrderJson(orderResponse'))
          ELSE /\ UNCHANGED <<orders, orderResponse>>
               /\ responses' = responses \o
                                 <<ErrorResponse(500, "Failed to place SL/TP orders"),
                                   OrderJson(orderResponse)>>
  /\ pc' = "done"
  /\ UNCHANGED <<body, symbolFilters, roundedQuantity, currentPrice>>
  /\ UNCHANGED <<clockVars, calcVars, auxVars>>

\* Lines 337-345 and 484-493: the take-profit request settles, placed or failed; the
\* function returns orders, which the handler does not read; the handler adds
\* the two prices to orderResponse and sends it.
PlaceTakeProfit ==
  /\ pc = "takeProfitWait"
  /\ pending' = {}
  /\ UNCHANGED lookups
  /\ \E outcome \in {"ok", "error"} :
       /\ sent' = Append(sent, TakeProfitRequest(body, roundedQuantity, sltp, outcome))
       /\ orders' = Append(orders, [type |-> "takeProfit", placed |-> outcome = "ok"])
  /\ orderResponse' = [orderResponse EXCEPT !.hasStops = TRUE,
                                            !.stopLossPrice = sltp.stopLossPrice,
                                            !.takeProfitPrice = sltp.takeProfitPrice]
  /\ responses' = Append(responses, OrderJson(orderResponse'))
  /\ pc' = "done"
  /\ UNCHANGED <<body, symbolFilters, roundedQuantity, currentPrice>>
  /\ UNCHANGED <<clockVars, calcVars, auxVars>>

Init == InitClock /\ InitCalcIdle /\ InitOrderIdle /\ InitAuxIdle

Next ==
  \/ Receive
  \/ Return
  \/ FiltersCached
  \/ FiltersFetched
  \/ FiltersFailed
  \/ PriceChecked
  \/ PriceFailed
  \/ CheckRateLimits
  \/ EntryRejected
  \/ EntryAccepted
  \/ DynamicStopsComputed
  \/ StopLossRequested
  \/ PlaceStopLoss
  \/ TakeProfitRequested
  \/ PlaceTakeProfit

Spec == Init /\ [][Next]_vars

\* The steps the handler takes once a request is in: each is an await that
\* settles or synchronous code.  Every exchange call completes or fails (axios
\* timeout 45 s, line 25), so a handler that can take a step takes one.
HandlerStep ==
  \/ FiltersCached
  \/ FiltersFetched
  \/ FiltersFailed
  \/ PriceChecked
  \/ PriceFailed
  \/ CheckRateLimits
  \/ EntryRejected
  \/ EntryAccepted
  \/ DynamicStopsComputed
  \/ StopLossRequested
  \/ PlaceStopLoss
  \/ TakeProfitRequested
  \/ PlaceTakeProfit

SpecLive == Init /\ [][Next]_vars /\ WF_vars(HandlerStep)

-----------------------------------------------------------------------------
\* makeSignedRequest (src/server.js 122-165) and generateSignature (57-62).
\* A JavaScript string is the sequence of its UTF-16 code units; an object is
\* the sequence of its [key, value] entries in insertion order.

\* The code units of the strings the model names.
Utf16 ==
  "symbol" :> <<115, 121, 109, 98, 111, 108>> @@
  "side" :> <<115, 105, 100, 101>> @@
  "quantity" :> <<113, 117, 97, 110, 116, 105, 116, 121>> @@
  "timestamp" :> <<116, 105, 109, 101, 115, 116, 97, 109, 112>> @@
  "recvWindow" :> <<114, 101, 99, 118, 87, 105, 110, 100, 111, 119>> @@
  "BTCUSDT" :> <<66, 84, 67, 85, 83, 68, 84>> @@
  "BUY" :> <<66, 85, 89>> @@
  "SELL" :> <<83, 69, 76, 76>> @@
  "0.0010" :> <<48, 46, 48, 48, 49, 48>> @@
  "=" :> <<61>> @@
  "&" :> <<38>> @@
  "&signature=" :> <<38, 115, 105, 103, 110, 97, 116, 117, 114, 101, 61>>

\* A property value: a string or a number.
StringValue(s) == [isNumber |-> FALSE, number |-> 0, string |-> s]
NumberValue(n) == [isNumber |-> TRUE, number |-> n, string |-> ""]

\* Number.prototype.toString of an integer.
RECURSIVE Digits(_)
Digits(n) == IF n < 10 THEN <<48 + n>> ELSE Digits(n \div 10) \o <<48 + (n % 10)>>
NumberToString(n) == IF n < 0 THEN <<45>> \o Digits(-n) ELSE Digits(n)

\* `${value}` of a template literal.
TemplateString(v) == IF v.isNumber THEN NumberToString(v.number) ELSE Utf16[v.string]

\* The order Array.prototype.sort() gives strings: by code units, a proper
\* prefix first.
StringLess(a, b) ==
  \/ Len(a) < Len(b) /\ SubSeq(b, 1, Len(a)) = a
  \/ \E i \in 1..Len(a) :
       /\ i <= Len(b)
       /\ SubSeq(a, 1, i - 1) = SubSeq(b, 1, i - 1)
       /\ a[i] < b[i]

\* Mutant of ArraySort: the keys are left in insertion order.
ArraySort_InsertionOrder(keys) == keys

\* Object.keys(...).sort() of line 128-129, on distinct keys.
RECURSIVE ArraySort(_)
ArraySort(keys) ==
  IF keys = <<>> THEN <<>>
  ELSE LET m == CHOOSE i \in DOMAIN keys :
                  \A j \in DOMAIN keys : ~StringLess(Utf16[keys[j]], Utf16[keys[i]])
           rest == [i \in 1..(Len(keys) - 1) |-> IF i < m THEN keys[i] ELSE keys[i + 1]]
       IN <<keys[m]>> \o ArraySort(rest)

\* Object.keys, obj[key] and obj[key] = value.
ObjectKeys(obj) == [i \in DOMAIN obj |-> obj[i].key]
ObjectGet(obj, key) == obj[CHOOSE i \in DOMAIN obj : obj[i].key = key].value
ObjectSet(obj, key, value) ==
  IF \E i \in DOMAIN obj : obj[i].key = key
  THEN [i \in DOMAIN obj |-> IF obj[i].key = key THEN [key |-> key, value |-> value]
                             ELSE obj[i]]
  ELSE Append(obj, [key |-> key, value |-> value])

\* entries.map(([key, value]) => `${key}=${value}`).join('&') of lines 137-139.
RECURSIVE JoinEntries(_)
JoinEntries(obj) ==
  IF obj = <<>> THEN <<>>
  ELSE LET e == obj[Len(obj)]
           pair == Utf16[e.key] \o Utf16["="] \o TemplateString(e.value)
       IN IF Len(obj) = 1 THEN pair
          ELSE JoinEntries(SubSeq(obj, 1, Len(obj) - 1)) \o Utf16["&"] \o pair

\* generateSignature: the HMAC-SHA256 of the string under SECRET_KEY, kept as
\* the application of an uninterpreted function to its argument.
generateSignature(queryString) == [hmacSha256 |-> queryString, key |-> "SECRET_KEY"]

\* Mutant of makeSignedRequest: recvWindow is added to the string after it
\* has been signed.
makeSignedRequest_SignsBeforeRecvWindow(endpoint, method, params) ==
  LET timestamp == getAdjustedTimestamp
      paramsWithTimestamp == ObjectSet(params, "timestamp", NumberValue(timestamp))
      keys == ArraySort(ObjectKeys(paramsWithTimestamp))
      sortedParams ==
        [i \in DOMAIN keys |->
           [key |-> keys[i], value |-> ObjectGet(paramsWithTimestamp, keys[i])]]
      queryString == JoinEntries(sortedParams)
      signature == generateSignature(queryString)
      withWindow == JoinEntries(Append(sortedParams,
                       [key |-> "recvWindow", value |-> NumberValue(60000)]))
  IN [endpoint |-> endpoint, method |-> method, params |-> params,
      timestamp |-> timestamp, queryString |-> queryString, signature |-> signature,
      url |-> [path |-> endpoint, query |-> withWindow \o Utf16["&signature="],
               signature |-> signature]]

\* makeSignedRequest up to the point where the request is handed to axios
\* (lines 122-157): what is signed and the URL that is sent.  The URL is
\* path ? query <signature>, query ending in "&signature=".
makeSignedRequest(endpoint, method, params) ==
  LET timestamp == getAdjustedTimestamp
      paramsWithTimestamp ==
        ObjectSet(ObjectSet(params, "timestamp", NumberValue(timestamp)),
                  "recvWindow", NumberValue(60000))
      keys == ArraySort(ObjectKeys(paramsWithTimestamp))
      sortedParams ==
        [i \in DOMAIN keys |->
           [key |-> keys[i], value |-> ObjectGet(paramsWithTimestamp, keys[i])]]
      queryString == JoinEntries(sortedParams)
      signature == generateSignature(queryString)
  IN [endpoint |-> endpoint, method |-> method, params |-> params,
      timestamp |-> timestamp, queryString |-> queryString, signature |-> signature,
      url |-> [path |-> endpoint, query |-> queryString \o Utf16["&signature="],
               signature |-> signature]]

\* Parameter objects given to makeSignedRequest: every choice of keys among
\* symbol, side and quantity, in every insertion order.
ParamValues ==
  "symbol" :> {"BTCUSDT"} @@ "side" :> {"BUY", "SELL"} @@ "quantity" :> {"0.0010"}
ParamKeys == DOMAIN ParamValues
RECURSIVE ObjectsOver(_)
ObjectsOver(keys) ==
  {<<>>} \cup
  UNION {{Append(o, [key |-> k, value |-> StringValue(v)]) :
            o \in ObjectsOver(keys \ {k}), v \in ParamValues[k]} : k \in keys}
ParamObjects == ObjectsOver(ParamKeys)

InitSign == InitClock /\ InitCalcIdle /\ InitOrderIdle /\ InitAuxIdle

\* One call of makeSignedRequest.  The history holds two calls, to be compared;
\* SignForget empties it for the calls that follow.
SignedCall ==
  /\ Len(signedCalls) < 2
  /\ \E params \in ParamObjects :
       signedCalls' = Append(signedCalls, makeSignedRequest("/fapi/v1/order", "POST", params))
  /\ UNCHANGED notSignVars

SignForget ==
  /\ Len(signedCalls) = 2
  /\ signedCalls' = <<>>
  /\ UNCHANGED notSignVars

NextSign ==
  \/ Tick
  \/ SignedCall
  \/ SignForget

SpecSign == InitSign /\ [][NextSign]_vars

-----------------------------------------------------------------------------
\* getSymbolFilters (src/server.js 93-107) under concurrent /api/order requests:
\* every request handler calls it (line 404) and suspends at its await while
\* other handlers run.

\* The time-to-live the cache is specified to have, in ticks of Date.now().
FilterTtl == 2

InitCache == InitClock /\ InitCalcIdle /\ InitOrderIdle /\ InitAuxIdle

\* Line 96 with the cache filled: the cached record is returned, whatever its age.
CacheHit(c) ==
  /\ callerPc[c] = "idle"
  /\ ~symbolFilters.isNull
  /\ callerResult' = [callerResult EXCEPT
                        ![c] = CallerResult(symbolFilters, TRUE, localTime - filtersFetchedAt)]
  /\ callerPc' = [callerPc EXCEPT ![c] = "returned"]
  /\ UNCHANGED <<symbolFilters, filtersFetchedAt>>
  /\ UNCHANGED notCacheVars

\* Lines 96-99 with the cache empty: the caller issues its own axios.get of
\* exchangeInfo and suspends.
CacheMiss(c) ==
  /\ callerPc[c] = "idle"
  /\ symbolFilters.isNull
  /\ callerPc' = [callerPc EXCEPT ![c] = "fetching"]
  /\ UNCHANGED <<symbolFilters, callerResult, filtersFetchedAt>>
  /\ UNCHANGED notCacheVars

\* Lines 99-102: the fetch is answered; the record is stored and returned.
ExchangeInfoFetched(c) ==
  /\ callerPc[c] = "fetching"
  /\ symbolFilters' = ExchangeFilters
  /\ filtersFetchedAt' = localTime
  /\ callerResult' = [callerResult EXCEPT ![c] = CallerResult(ExchangeFilters, FALSE, 0)]
  /\ callerPc' = [callerPc EXCEPT ![c] = "returned"]
  /\ UNCHANGED notCacheVars

\* Lines 103-106: the fetch failed or BTCUSDT is not in the list; null is returned.
ExchangeInfoFailed(c) ==
  /\ callerPc[c] = "fetching"
  /\ callerResult' = [callerResult EXCEPT ![c] = CallerResult(FiltersNull, FALSE, 0)]
  /\ callerPc' = [callerPc EXCEPT ![c] = "returned"]
  /\ UNCHANGED <<symbolFilters, filtersFetchedAt>>
  /\ UNCHANGED notCacheVars

\* The caller's request is over; another may come.
CallerDone(c) ==
  /\ callerPc[c] = "returned"
  /\ callerPc' = [callerPc EXCEPT ![c] = "idle"]
  /\ callerResult' = [callerResult EXCEPT ![c] = CallerResultNone]
  /\ UNCHANGED <<symbolFilters, filtersFetchedAt>>
  /\ UNCHANGED notCacheVars

NextCache ==
  \/ Tick
  \/ \E c \in Callers : CacheHit(c)
  \/ \E c \in Callers : CacheMiss(c)
  \/ \E c \in Callers : ExchangeInfoFetched(c)
  \/ \E c \in Callers : ExchangeInfoFailed(c)
  \/ \E c \in Callers : CallerDone(c)

SpecCache == InitCache /\ [][NextCache]_vars

-----------------------------------------------------------------------------
\* axiosInstance with axios-retry (src/server.js 24-42): one request, from the
\* call to the promise settling.  axios-retry re-issues a failed request while
\* fewer than `retries` retries were made and retryCondition(error) holds,
\* waiting retryDelay(retryCount) before each.

\* The outcome of one transmission, as retryCondition reads it: error.code,
\* error.response?.status and error.response?.data?.code ("" and 0 when absent).
AxiosError(code, status, dataCode) ==
  [ok |-> FALSE, code |-> code, status |-> status, dataCode |-> dataCode]
AxiosOk == [ok |-> TRUE, code |-> "", status |-> 200, dataCode |-> 0]

\* Failures a transmission may end with: HTTP 408; connection refused; a
\* connect timeout; the exchange's -1007 (backend timeout); axios's own 45 s
\* timeout; -1021 (timestamp outside recvWindow); -1022 (invalid signature);
\* -1003 with HTTP 429 (rate limit); HTTP 500.
Failures ==
  {AxiosError("ERR_BAD_REQUEST", 408, 0),
   AxiosError("ECONNREFUSED", 0, 0),
   AxiosError("ETIMEDOUT", 0, 0),
   AxiosError("ERR_BAD_RESPONSE", 503, -1007),
   AxiosError("ECONNABORTED", 0, 0),
   AxiosError("ERR_BAD_REQUEST", 400, -1021),
   AxiosError("ERR_BAD_REQUEST", 400, -1022),
   AxiosError("ERR_BAD_REQUEST", 429, -1003),
   AxiosError("ERR_BAD_RESPONSE", 500, 0)}

\* The options of lines 32-41.
retries == 5
retryDelay(count) == count * 3000

\* Mutant of retryCondition: every answer with an exchange error code is retried.
retryCondition_AnyExchangeCode(error) ==
  \/ error.status = 408
  \/ error.code = "ECONNREFUSED"
  \/ error.code = "ETIMEDOUT"
  \/ error.dataCode /= 0

retryCondition(error) ==
  \/ error.status = 408
  \/ error.code = "ECONNREFUSED"
  \/ error.code = "ETIMEDOUT"
  \/ error.dataCode = -1007

InitRetry == InitClock /\ InitCalcIdle /\ InitOrderIdle /\ InitAuxIdle

\* axiosInstance({method, url, ...}) is called: the first transmission.
RequestIssued ==
  /\ retryPc = "idle"
  /\ retryPc' = "inFlight"
  /\ UNCHANGED <<retryCount, attempts, delays, executed>>
  /\ UNCHANGED notRetryVars

\* The transmission is answered with a 2xx: the exchange has executed the
\* request and the promise resolves.
ResponseOk ==
  /\ retryPc = "inFlight"
  /\ attempts' = Append(attempts, AxiosOk)
  /\ executed' = executed + 1
  /\ retryPc' = "resolved"
  /\ UNCHANGED <<retryCount, delays>>
  /\ UNCHANGED notRetryVars

\* Failures that leave open whether the exchange executed the request: the
\* answer did not arrive in time (ETIMEDOUT, axios's own timeout), or the
\* exchange answered -1007, "send status unknown; execution status unknown".
ExecutionUnknown(error) ==
  \/ error.code \in {"ETIMEDOUT", "ECONNABORTED"}
  \/ error.dataCode = -1007

\* The transmission fails, executed by the exchange or not: axios-retry
\* schedules a retransmission of the same URL, or lets the error through to
\* the caller.
ResponseError ==
  /\ retryPc = "inFlight"
  /\ \E error \in Failures :
       /\ attempts' = Append(attempts, error)
       /\ \E n \in (IF ExecutionUnknown(error) THEN {0, 1} ELSE {0}) :
            executed' = executed + n
       /\ IF retryCount < retries /\ retryCondition(error)
          THEN /\ retryCount' = retryCount + 1
               /\ delays' = Append(delays, retryDelay(retryCount + 1))
               /\ retryPc' = "waiting"
          ELSE /\ retryPc' = "rejected"
               /\ UNCHANGED <<retryCount, delays>>
  /\ UNCHANGED notRetryVars

\* The delay is over: the same request is transmitted again.
Retransmit ==
  /\ retryPc = "waiting"
  /\ retryPc' = "inFlight"
  /\ UNCHANGED <<retryCount, attempts, delays, executed>>
  /\ UNCHANGED notRetryVars

\* The caller has its answer or its exception; the client takes the next request.
RequestSettled ==
  /\ retryPc \in {"resolved", "rejected"}
  /\ retryPc' = "idle"
  /\ retryCount' = 0
  /\ attempts' = <<>>
  /\ delays' = <<>>
  /\ executed' = 0
  /\ UNCHANGED notRetryVars

NextRetry ==
  \/ RequestIssued
  \/ ResponseOk
  \/ ResponseError
  \/ Retransmit
  \/ RequestSettled

SpecRetry == InitRetry /\ [][NextRetry]_vars

-----------------------------------------------------------------------------
\* C1: after a sync whose server-time fetch failed has completed, and some
\* earlier sync succeeded, the stored offset is still the offset of the most
\* recent successful sync, and getAdjustedTimestamp() is localTime + that offset.
C1_FailedSyncKeepsOffset ==
  (lastSync = "failed" /\ everSynced) =>
     /\ serverTimeOffset = lastGoodOffset
     /\ getAdjustedTimestamp = localTime + lastGoodOffset

-----------------------------------------------------------------------------
\* Signed requests of the current /api/order request, by kind.
EntryTypes == {"MARKET", "LIMIT"}
ProtectiveTypes == {"STOP_MARKET", "TAKE_PROFIT_MARKET"}
SentOfType(types) == {i \in DOMAIN sent : sent[i].type \in types}

\* C2: once protective placement has started, the stop-loss request and the
\* take-profit request are each issued exactly once whatever the other leg's
\* outcome, each outcome is recorded in its own entry of orders, and nothing
\* but the one entry order and the two protective orders is sent (no request
\* cancels or reverses the filled entry).
C2_BothLegsAttemptedOnce ==
  LET sl == SentOfType({"STOP_MARKET"})
      tp == SentOfType({"TAKE_PROFIT_MARKET"})
  IN /\ pc \in {"takeProfit", "takeProfitWait"} =>
          /\ Cardinality(sl) = 1 /\ tp = {}
          /\ Len(orders) = 1 /\ orders[1].type = "stopLoss"
          /\ orders[1].placed = (sent[2].outcome = "ok")
     /\ (pc = "done" /\ sl /= {}) =>
          /\ Cardinality(sl) = 1 /\ Cardinality(tp) = 1
          /\ Len(orders) = 2
          /\ orders[1] = [type |-> "stopLoss", placed |-> sent[2].outcome = "ok"]
          /\ orders[2] = [type |-> "takeProfit", placed |-> sent[3].outcome = "ok"]
     /\ sl \cup tp /= {} =>
          /\ Cardinality(SentOfType(EntryTypes)) = 1
          /\ sent[1].type \in EntryTypes /\ sent[1].outcome = "ok"
          /\ \A i \in DOMAIN sent :
               /\ sent[i].method = "POST"
               /\ i > 1 => sent[i].type \in ProtectiveTypes
          /\ orderResponse.status = "FILLED"

C2_Witness ==
  /\ pc = "done" /\ Len(orders) = 2
  /\ ~orders[1].placed /\ orders[2].placed
  /\ Len(sent) = 3

\* C3: for a filled entry with protective orders requested, the one response
\* reports the entry as filled and reports for each protective leg whether it
\* was placed or failed (stop-loss as error and take-profit as placed when
\* that is what happened), and the entry is submitted once.
C3_ResponseReportsLegs ==
  (pc = "done" /\ Len(orders) = 2) =>
     /\ Cardinality(SentOfType(EntryTypes)) = 1
     /\ Len(responses) = 1
     /\ responses[1].order.status = "FILLED"
     /\ "orders" \in DOMAIN responses[1].order
     /\ responses[1].order.orders = orders

\* C4: a stop-loss or take-profit request is sent only after the entry
\* request was answered with status FILLED and only with placeSLTP true;
\* otherwise, once the entry is accepted, the entry request is the only request
\* and the exchange's order record alone is returned.
C4_ProtectiveOnlyAfterFilledEntry ==
  /\ \A i \in SentOfType(ProtectiveTypes) :
       /\ i > 1
       /\ sent[1].type \in EntryTypes /\ sent[1].outcome = "ok"
       /\ ~orderResponse.isNull /\ orderResponse.status = "FILLED"
       /\ body.placeSLTP /= "false"
  /\ (~orderResponse.isNull
        /\ (body.placeSLTP = "false" \/ orderResponse.status /= "FILLED")) =>
       /\ pc = "done"
       /\ Len(sent) = 1
       /\ responses = <<OrderJson(OrderResponse(orderResponse.status,
                                                orderResponse.avgPrice))>>

C4_Witness ==
  /\ pc = "done" /\ body.type = "LIMIT" /\ body.placeSLTP = "true"
  /\ ~orderResponse.isNull /\ orderResponse.status = "NEW"
  /\ Len(sent) = 1 /\ Len(responses) = 1

C6_RejectedEntryIsTerminal ==
  (sent /= <<>> /\ sent[1].outcome = "error") =>
     /\ pc = "done"
     /\ Len(sent) = 1
     /\ SentOfType(ProtectiveTypes) = {}
     /\ orderResponse.isNull
     /\ responses = <<ErrorResponse(500, "Failed to place order")>>

C6_Witness ==
  /\ pc = "done" /\ Len(sent) = 1 /\ sent[1].outcome = "error"
  /\ body.placeSLTP = "true" /\ body.type = "MARKET"

\* C7: with explicit stopLossPrice and takeProfitPrice and a filled entry, the
\* sidedness of the explicit prices is checked (BUY: stopLoss < entry <
\* takeProfit, SELL: the reverse); on violation a validation error is answered
\* and no protective order is placed; otherwise the protective orders carry
\* the explicit prices.
C7_ExplicitStopsCheckedAndUsed ==
  (pc = "done" /\ body.stopLossPrice /= 0 /\ body.takeProfitPrice /= 0
     /\ ~orderResponse.isNull /\ orderResponse.status = "FILLED" /\ placeSLTP(body)) =>
    LET e == orderResponse.avgPrice
        sided == IF toUpperCase(body.side) = "BUY"
                 THEN body.stopLossPrice < e /\ e < body.takeProfitPrice
                 ELSE body.takeProfitPrice < e /\ e < body.stopLossPrice
    IN IF sided
       THEN /\ SentOfType(ProtectiveTypes) /= {}
            /\ \A i \in SentOfType({"STOP_MARKET"}) :
                 sent[i].stopPrice = 100 * body.stopLossPrice
            /\ \A i \in SentOfType({"TAKE_PROFIT_MARKET"}) :
                 sent[i].stopPrice = 100 * body.takeProfitPrice
       ELSE /\ SentOfType(ProtectiveTypes) = {}
            /\ responses /= <<>> /\ responses[Len(responses)].status = 400

\* C8: for a positive entry price and a positive ATR, calculateDynamicSLTP
\* returns stopLoss < entry < takeProfit for BUY and takeProfit < entry < stopLoss
\* for SELL, the stop at distance atr * 1.5 and the target at distance atr * 1.5 * 2.
C8_AtrStopsSided ==
  (calcPc = "sltpDone" /\ ~atr.isNull /\ atr.value.num > 0) =>
    LET e == RatInt(entryPrice)
        stopDist == RatMul(atr.value, Rat(15, 10))
        targetDist == RatMul(stopDist, RatInt(2))
    IN /\ ~sltp.isNull
       /\ toUpperCase(side) = "BUY" =>
            /\ RatLess(sltp.stopLossPrice, e) /\ RatLess(e, sltp.takeProfitPrice)
            /\ RatEq(RatSub(e, sltp.stopLossPrice), stopDist)
            /\ RatEq(RatSub(sltp.takeProfitPrice, e), targetDist)
       /\ toUpperCase(side) = "SELL" =>
            /\ RatLess(sltp.takeProfitPrice, e) /\ RatLess(e, sltp.stopLossPrice)
            /\ RatEq(RatSub(sltp.stopLossPrice, e), stopDist)
            /\ RatEq(RatSub(e, sltp.takeProfitPrice), targetDist)

C8_Witness ==
  /\ calcPc = "sltpDone" /\ ~atr.isNull /\ atr.value.num > 0
  /\ side = "SELL" /\ klines.kind = "array" /\ Len(klines.rows) = DefaultPeriod + 10
  /\ RatLess(sltp.takeProfitPrice, RatInt(0))

\* C9: when the ATR computation fails (request error, no array, fewer than 14
\* rows) or gives no usable value (0), calculateDynamicSLTP still returns a pair:
\* stop 2% from the entry, target 4% from it (risk-reward 2), on the right sides.
C9_FallbackAlwaysReturns ==
  (calcPc = "sltpDone" /\ (atr.isNull \/ atr.value.num = 0)) =>
    LET e == RatInt(entryPrice)
    IN /\ ~sltp.isNull
       /\ toUpperCase(side) = "BUY" =>
            /\ RatEq(sltp.stopLossPrice, Rat(98 * entryPrice, 100))
            /\ RatEq(sltp.takeProfitPrice, Rat(104 * entryPrice, 100))
            /\ RatLess(sltp.stopLossPrice, e) /\ RatLess(e, sltp.takeProfitPrice)
       /\ toUpperCase(side) = "SELL" =>
            /\ RatEq(sltp.stopLossPrice, Rat(102 * entryPrice, 100))
            /\ RatEq(sltp.takeProfitPrice, Rat(96 * entryPrice, 100))
            /\ RatLess(sltp.takeProfitPrice, e) /\ RatLess(e, sltp.stopLossPrice)

C9_Witness ==
  /\ calcPc = "sltpDone" /\ atr.isNull
  /\ klines.kind = "array" /\ Len(klines.rows) = DefaultPeriod - 1
  /\ side = "buy" /\ ~sltp.isNull

\* C10: whenever calculateATR returns a number, exactly `period` true ranges
\* exist to be averaged and the number is the sum of the last `period` of them
\* divided by `period`; with too few candles for that it returns no number.
C10_AtrIsMeanOfPeriodTrueRanges ==
  calcPc = "atrDone" =>
    LET trs == trueRanges(klines.rows)
        n == Len(trs)
    IN /\ ~atr.isNull =>
            /\ n >= period
            /\ RatEq(atr.value, Rat(SumSeq(SubSeq(trs, n - period + 1, n)), period))
       /\ n < period => atr.isNull

-----------------------------------------------------------------------------
\* The entries of an object, without their order.
EntrySet(obj) == {obj[i] : i \in DOMAIN obj}
KeySet(obj) == {obj[i].key : i \in DOMAIN obj}

\* C11: two calls of makeSignedRequest at the same timestamp whose parameter
\* objects hold the same key/value pairs, in whatever insertion order, sign the
\* same canonical string and get the same signature; and two calls at the same
\* timestamp with the same keys that differ in the value of some parameter sign
\* different canonical strings.
C11_SignatureIgnoresInsertionOrder ==
  \A i, j \in DOMAIN signedCalls :
    LET a == signedCalls[i]
        b == signedCalls[j]
    IN /\ (EntrySet(a.params) = EntrySet(b.params) /\ a.timestamp = b.timestamp) =>
            /\ a.queryString = b.queryString
            /\ a.signature = b.signature
       /\ (KeySet(a.params) = KeySet(b.params) /\ a.timestamp = b.timestamp
             /\ EntrySet(a.params) /= EntrySet(b.params)) =>
            a.queryString /= b.queryString

C11_Witness ==
  /\ Len(signedCalls) = 2
  /\ EntrySet(signedCalls[1].params) = EntrySet(signedCalls[2].params)
  /\ Len(signedCalls[1].params) = 3
  /\ signedCalls[1].params /= signedCalls[2].params
  /\ signedCalls[1].params[1] = signedCalls[2].params[3]
  /\ signedCalls[1].timestamp = signedCalls[2].timestamp
  /\ signedCalls[1].queryString = signedCalls[2].queryString

-----------------------------------------------------------------------------
\* What a call must sign: the caller's pairs plus timestamp and recvWindow, each
\* pair placed by the number of keys that sort before its key.
CanonicalEntries(c) ==
  LET pairs == EntrySet(c.params)
                 \cup {[key |-> "timestamp", value |-> NumberValue(c.timestamp)],
                       [key |-> "recvWindow", value |-> NumberValue(60000)]}
      rank(p) == 1 + Cardinality({q \in pairs : StringLess(Utf16[q.key], Utf16[p.key])})
  IN [i \in 1..Cardinality(pairs) |-> CHOOSE p \in pairs : rank(p) = i]

\* C18: for every call of makeSignedRequest, the query of the URL handed to the
\* HTTP client is the signed string followed by "&signature=" and the signature
\* of that very string; the signed string holds every caller parameter plus
\* timestamp and recvWindow as key=value joined by & in lexicographic key order;
\* and the timestamp is the adjusted time read when the call starts.
C18_SentStringIsSignedString ==
  [][Len(signedCalls') > Len(signedCalls) =>
       LET c == signedCalls'[Len(signedCalls')]
       IN /\ c.url.query = c.queryString \o Utf16["&signature="]
          /\ c.url.signature = generateSignature(c.queryString)
          /\ c.url.path = c.endpoint
          /\ c.queryString = JoinEntries(CanonicalEntries(c))
          /\ c.timestamp = getAdjustedTimestamp]_vars

C18_Witness ==
  /\ Len(signedCalls) = 1
  /\ localTime = 2
  /\ signedCalls[1].timestamp = 1
  /\ Len(signedCalls[1].params) = 3
  /\ signedCalls[1].params[1].key = "symbol"
  /\ signedCalls[1].params[3].key = "quantity"
  /\ SubSeq(signedCalls[1].queryString, 1, 9) = Utf16["quantity"] \o Utf16["="]

-----------------------------------------------------------------------------
\* C12: a request whose quantity is not an integer multiple of stepSize, or is
\* below minQty, does not pass validation (with stepSize 0.001, 0.0015 is
\* rejected and 0.002 accepted), and the quantity of an entry request that is
\* transmitted is a multiple of stepSize.  Stated for requests whose price
\* lookup succeeded, so that both checks of lines 420-436 ran.
C12_QuantityOnStepAndAboveMin ==
  LET validated == pc \in {"rateLimits", "entry", "sltp", "stopLoss", "stopLossWait",
                            "takeProfit", "takeProfitWait"}
                     \/ sent /= <<>>
  IN currentPrice /= 0 =>
       /\ validated =>
            /\ roundedQuantity % symbolFilters.stepSize = 0
            /\ roundedQuantity >= symbolFilters.minQty
       /\ \A i \in SentOfType(EntryTypes) :
            sent[i].quantity % symbolFilters.stepSize = 0

-----------------------------------------------------------------------------
\* C13: a record returned from the cache was stored no longer ago than the
\* time-to-live: once the time-to-live has elapsed the cached record is not
\* served (the access refetches, and returns an error if the refetch fails).
C13_ExpiredFiltersNotServed ==
  \A c \in Callers :
    (callerPc[c] = "returned" /\ callerResult[c].fromCache) =>
       callerResult[c].age <= FilterTtl

\* C14: while the cache is empty, at most one exchangeInfo fetch is in flight,
\* however many callers have missed.
C14_SingleFlight ==
  Cardinality({c \in Callers : callerPc[c] = "fetching"}) <= 1

-----------------------------------------------------------------------------
\* C15: when getSymbolFilters returns null (exchangeInfo unreachable, or the
\* symbol missing from its list) the request ends with the 500 answer "Failed to
\* fetch symbol filters", nothing is sent to the exchange, and the cache is still
\* empty, so that the next request fetches again; and no request gets past the
\* filters step without filters.
C15_NoFiltersNoOrder ==
  /\ (\E i \in DOMAIN responses :
        responses[i] = ErrorResponse(500, "Failed to fetch symbol filters")) =>
       /\ pc = "done"
       /\ Len(responses) = 1
       /\ sent = <<>>
       /\ orderResponse.isNull
       /\ symbolFilters.isNull
  /\ (pc \in {"price", "rateLimits", "entry", "sltp", "stopLoss", "stopLossWait",
              "takeProfit", "takeProfitWait"}
        \/ sent /= <<>>) => ~symbolFilters.isNull

C15_Witness ==
  /\ pc = "done"
  /\ responses = <<ErrorResponse(500, "Failed to fetch symbol filters")>>
  /\ symbolFilters.isNull
  /\ body.side = "SELL" /\ body.quantity = 100

-----------------------------------------------------------------------------
\* The failures the claim calls transient, and the number of transmissions made.
Transient(error) ==
  \/ error.status = 408
  \/ error.code \in {"ECONNREFUSED", "ETIMEDOUT"}
  \/ error.dataCode = -1007
Transmissions == Len(attempts) + (IF retryPc = "inFlight" THEN 1 ELSE 0)

\* C16: a request through the retrying client is transmitted again only after a
\* failure of the transient class (HTTP 408, connection refused, timeout,
\* code -1007), at most 5 times, the k-th time after a delay of 3000 * k ms; a
\* failure of any other kind (a signature or timestamp rejection included) is
\* the last transmission and is what the caller gets.
C16_RetriesOnlyTransientFailures ==
  /\ Transmissions <= 1 + 5
  /\ Len(delays) = retryCount /\ retryCount <= 5
  /\ \A k \in DOMAIN delays : delays[k] = 3000 * k
  /\ \A i \in DOMAIN attempts :
       /\ (i < Transmissions \/ retryPc = "waiting") =>
            ~attempts[i].ok /\ Transient(attempts[i])
       /\ (~attempts[i].ok /\ ~Transient(attempts[i])) =>
            i = Len(attempts) /\ retryPc = "rejected"
       /\ attempts[i].dataCode \in {-1021, -1022} =>
            i = Len(attempts) /\ retryPc = "rejected"
  /\ retryPc = "waiting" => Len(delays) = Len(attempts)

C16_Witness ==
  /\ retryPc = "rejected"
  /\ Len(attempts) = 3
  /\ attempts[1].status = 408
  /\ attempts[2].code = "ETIMEDOUT"
  /\ attempts[3].dataCode = -1022
  /\ delays = <<3000, 6000>>

-----------------------------------------------------------------------------
\* C20: every stop-loss and take-profit request is on the side opposite to the
\* side of the entry request that was sent: SELL for an entry sent as BUY, BUY
\* for an entry sent as SELL, however the request spelled its side.
C20_ProtectiveSideOpposite ==
  \A i \in SentOfType(ProtectiveTypes) :
    /\ sent[1].type \in EntryTypes
    /\ sent[1].side = "BUY" => sent[i].side = "SELL"
    /\ sent[1].side = "SELL" => sent[i].side = "BUY"

-----------------------------------------------------------------------------
\* C19: the filters, the ticker price and the candle history looked up for a
\* request whose entry order is sent are those of the symbol the order is
\* placed on, which is the symbol named in the request.
C19_LookupsUseRequestSymbol ==
  sent /= <<>> =>
    /\ sent[1].symbol = toUpperCase(symbol(body))
    /\ \A i \in DOMAIN lookups : lookups[i].symbol = sent[1].symbol

-----------------------------------------------------------------------------
\* The stage of the order lifecycle the handler is in.
Stage ==
  CASE pc = "idle" -> "Idle"
    [] pc \in {"filters", "price", "rateLimits"} -> "Validating"
    [] pc = "entry" -> "EntrySubmitted"
    [] pc = "sltp" -> "EntryFilled"
    [] pc \in {"stopLoss", "stopLossWait", "takeProfit", "takeProfitWait"}
         -> "ProtectivePlacement"
    [] pc = "done" -> "Done"
    [] OTHER -> "Unknown"

\* The moves of Validating -> EntrySubmitted -> (EntryFilled ->
\* ProtectivePlacement -> Done | EntryRejected -> Done); a request enters at
\* Validating and a rejected entry passes to Done at once.
LifecycleMoves ==
  {<<"Idle", "Validating">>, <<"Validating", "Validating">>,
   <<"Validating", "EntrySubmitted">>, <<"EntrySubmitted", "EntryFilled">>,
   <<"EntryFilled", "ProtectivePlacement">>,
   <<"ProtectivePlacement", "ProtectivePlacement">>,
   <<"ProtectivePlacement", "Done">>, <<"Done", "Idle">>}
StatedMove == <<Stage, Stage'>> \in LifecycleMoves
RejectedMove ==
  /\ pc = "entry" /\ pc' = "done"
  /\ sent' /= <<>> /\ sent'[1].outcome = "error"

\* The moves the lifecycle also has: validation ends the request with nothing
\* sent, and an accepted entry for which no protective placement is due (not
\* FILLED, or placeSLTP false) ends it with the order record.
ValidationFailedMove ==
  /\ pc \in {"idle", "filters", "price"} /\ pc' = "done"
  /\ sent' = <<>>
  /\ responses' /= <<>> /\ responses'[Len(responses')].status \in {400, 500}
AcceptedWithoutProtectionMove ==
  /\ pc = "entry" /\ pc' = "done"
  /\ sent' /= <<>> /\ sent'[1].outcome = "ok"
  /\ ~ProtectionWanted(body, orderResponse')

\* Every request in the handler gets to Done, and at Done it has been answered.
ReachesDone ==
  /\ [](pc = "done" => responses /= <<>>)
  /\ (pc /= "idle") ~> (pc = "done" /\ responses /= <<>>)

\* C17 as stated: a request moves only along Validating -> EntrySubmitted ->
\* (EntryFilled -> ProtectivePlacement -> Done | EntryRejected -> Done), and
\* with every exchange call completing or failing it reaches Done, answered.
C17_LifecycleAsStated ==
  /\ [][StatedMove \/ RejectedMove]_vars
  /\ ReachesDone

\* C17, amended: a request moves only along the stated lifecycle or along
\* Validating -> Done (validation or filters failed, nothing sent) or
\* EntrySubmitted -> Done with the entry accepted and no protective placement
\* due; and with every exchange call completing or failing it reaches Done,
\* answered.
C17_Lifecycle ==
  /\ [][StatedMove \/ RejectedMove \/ ValidationFailedMove
         \/ AcceptedWithoutProtectionMove]_vars
  /\ ReachesDone

C17_Witness ==
  /\ pc = "done"
  /\ Len(sent) = 1 /\ sent[1].outcome = "ok"
  /\ orderResponse.status = "PARTIALLY_FILLED"
  /\ Len(responses) = 1 /\ responses[1].status = 200

-----------------------------------------------------------------------------
\* C21: whenever an entry request has been sent, the notional and
\* minimum-quantity checks of lines 420-436 were made for it and passed: a
\* price was obtained, price * quantity is at least minNotional and the
\* step-rounded quantity at least minQty.
C21_EntryPassedNotionalAndQuantityChecks ==
  sent /= <<>> =>
    /\ currentPrice /= 0
    /\ currentPrice * roundedQuantity >= symbolFilters.minNotional * QtyScale
    /\ MathRoundDiv(roundedQuantity, symbolFilters.stepSize) * symbolFilters.stepSize
         >= symbolFilters.minQty

-----------------------------------------------------------------------------
\* C22: of the transmissions of one request through the retrying client - the
\* entry request of an order invocation is one (lines 150, 460) - the exchange
\* executes at most one, so that at most one entry order is created, whatever
\* is retransmitted after a timeout.
C22_AtMostOneEntryCreated == executed <= 1

-----------------------------------------------------------------------------
\* C23: a request is answered exactly once: no answer has been sent while the
\* handler is still at work, and when it has ended exactly one has been sent,
\* on every path (validation rejection, failed filters, failed or accepted
\* entry, protective legs placed or failed).
C23_ExactlyOneResponse ==
  /\ Len(responses) <= 1
  /\ (pc = "done") = (Len(responses) = 1)

C23_Witness ==
  /\ pc = "done"
  /\ Len(orders) = 2 /\ ~orders[1].placed /\ ~orders[2].placed
  /\ Len(responses) = 1 /\ responses[1].status = 200
  /\ responses[1].order.hasStops

-----------------------------------------------------------------------------
\* C24: for a filled entry with placeSLTP true, the take-profit request is made
\* only once the stop-loss request has settled (placed or failed, and recorded),
\* and the answer to the caller is sent only once both requests have settled.
C24_ResponseAfterBothLegsInOrder ==
  /\ ("TAKE_PROFIT_MARKET" \in pending \/ SentOfType({"TAKE_PROFIT_MARKET"}) /= {}) =>
       /\ "STOP_MARKET" \notin pending
       /\ Cardinality(SentOfType({"STOP_MARKET"})) = 1
       /\ sent[2].type = "STOP_MARKET" /\ sent[2].outcome \in {"ok", "error"}
       /\ Len(orders) >= 1 /\ orders[1].type = "stopLoss"
  /\ (responses /= <<>> /\ ProtectionWanted(body, orderResponse)) =>
       /\ pc = "done"
       /\ pending = {}
       /\ Len(sent) = 3
       /\ sent[3].type = "TAKE_PROFIT_MARKET" /\ sent[3].outcome \in {"ok", "error"}
       /\ Len(orders) = 2 /\ orders[2].type = "takeProfit"
  /\ pc \in {"sltp", "stopLoss", "stopLossWait", "takeProfit", "takeProfitWait"} =>
       responses = <<>>

C24_Witness ==
  /\ pc = "takeProfitWait"
  /\ pending = {"TAKE_PROFIT_MARKET"}
  /\ Len(sent) = 2 /\ sent[2].outcome = "error"
  /\ responses = <<>>

====
